---- MODULE Spec2Model ----
(***************************************************************************)
(* Draft autosave for the Add Cards window (src/__init__.py).              *)
(*                                                                         *)
(* The backing file add_cards_autosave.json, the wall clock and the Add    *)
(* dialogs are the state.  The draft-store functions                       *)
(* are operators computed as the code computes them, exceptions included:  *)
(* an operator returns a record whose exc field names the exception that   *)
(* leaves the function ("none" when it returns normally).                  *)
(***************************************************************************)
EXTENDS Integers, Sequences, FiniteSets, TLC

VARIABLES
  file,     \* the backing file: [kind, data]
  now,      \* the wall clock, time.time()
  dialogs,  \* the AddCards instances
  last      \* the operation that ran last, with its arguments and result

vars == <<file, now, dialogs, last>>

----------------------------------------------------------------------------
(* Configuration and value domains *)

\* 48 * 60 * 60 seconds in the source; one model time unit is two days.
MAX_AGE_SECONDS == 1

\* The clock never shows less than MinTime: time.time() is far more than
\* MAX_AGE_SECONDS past the epoch, so a last_saved of 0 is always expired.
MinTime == MAX_AGE_SECONDS + 1

\* The clock stops advancing here.
MaxTime == 4

NoteTypes == {"Basic", "Cloze"}

\* nt.get("name", "") may be the empty string.
TypeNames == NoteTypes \cup {""}

\* The drafts handed to the draft store when it is called directly: field
\* lists of length 0, 1 and 2, with and without tags.
Drafts ==
  {[fields |-> <<>>, tags |-> <<>>], [fields |-> <<"f">>, tags |-> <<"t">>],
   [fields |-> <<"", "f">>, tags |-> <<>>]}

EmptyMap == <<>>

\* dict.pop(k, None)
Pop(m, k) == [t \in DOMAIN m \ {k} |-> m[t]]

\* m[k] = v
Put(m, k, v) == [t \in DOMAIN m \cup {k} |-> IF t = k THEN v ELSE m[t]]

\* A JSON entry of the mapping.  Each member is a value with the kind json
\* gives it: last_saved a number ("num"), not there ("missing") or something
\* float() rejects ("bad"); fields and tags a list ("list"), not there
\* ("missing") or another JSON value ("other").
Entry(ls, fields, tags) ==
  [ls_kind |-> "num", last_saved |-> ls,
   fields_kind |-> "list", fields |-> fields,
   tags_kind |-> "list", tags |-> tags]

AbsentFile == [kind |-> "absent", data |-> EmptyMap]
GarbageFile == [kind |-> "garbage", data |-> EmptyMap]
ArrayFile == [kind |-> "array", data |-> EmptyMap]
ObjectFile(data) == [kind |-> "object", data |-> data]

\* The outcomes of the storage calls of one operation: the read of line 102,
\* the writes of _save_all_backups (w1 the first, w2 the second of the
\* operation), os.remove.  open(path, "w") may fail and leave the file as it
\* was ("open_fails"); json.dump may fail after open truncated the file
\* ("dump_fails").
NoFaults == [read |-> "ok", w1 |-> "ok", w2 |-> "ok", rm |-> "ok"]

WriteOutcomes == {"ok", "open_fails", "dump_fails"}

----------------------------------------------------------------------------
(* Draft store *)

\* Every operator below returns a record: exc names the exception that
\* leaves the function ("none" when it returns), file is the backing file
\* it leaves, failed the kinds of storage call that were made and failed.

\* The body of the try of _load_all_backups: open, json.load.
json_load(f, read) ==
  IF read = "fail"
    THEN [exc |-> "OSError", isdict |-> FALSE, val |-> EmptyMap, failed |-> {"read"}]
  ELSE IF f.kind = "garbage"
    THEN [exc |-> "JSONDecodeError", isdict |-> FALSE, val |-> EmptyMap, failed |-> {}]
  ELSE [exc |-> "none", isdict |-> f.kind = "object", val |-> f.data, failed |-> {}]

\* return {}
EmptyDict == [exc |-> "none", isdict |-> TRUE, val |-> EmptyMap, failed |-> {}]

\* Faulty variant of _load_all_backups: the isinstance check of line 104 is
\* left out, so whatever json.load returned is returned.
load_all_without_isinstance(f, read) ==
  IF f.kind = "absent" THEN EmptyDict
  ELSE LET r == json_load(f, read)
       IN IF r.exc # "none" THEN [EmptyDict EXCEPT !.failed = r.failed]
          ELSE r

_load_all_backups(f, read) ==
  IF f.kind = "absent" THEN EmptyDict
  ELSE LET r == json_load(f, read)
       IN IF r.exc # "none" THEN [EmptyDict EXCEPT !.failed = r.failed]
          ELSE IF r.isdict THEN r
          ELSE EmptyDict

\* The body of the try of _save_all_backups: open(path, "w"), json.dump.
json_dump(f, data, w) ==
  IF w = "open_fails" THEN [exc |-> "OSError", file |-> f, failed |-> {"write"}]
  ELSE IF w = "dump_fails"
    THEN [exc |-> "OSError", file |-> GarbageFile, failed |-> {"write"}]
  ELSE [exc |-> "none", file |-> ObjectFile(data), failed |-> {}]

\* except Exception: pass
Swallow(r) == [r EXCEPT !.exc = "none"]

_save_all_backups(f, data, w) == Swallow(json_dump(f, data, w))

\* float(entry.get("last_saved", 0))
float_last_saved(e) ==
  IF e.ls_kind = "missing" THEN [exc |-> "none", val |-> 0]
  ELSE IF e.ls_kind = "bad" THEN [exc |-> "ValueError", val |-> 0]
  ELSE [exc |-> "none", val |-> e.last_saved]

_prune_old_backups(backups, t) ==
  LET keep == {nt \in DOMAIN backups :
                 LET ls == float_last_saved(backups[nt])
                 IN ls.exc = "none" /\ t - ls.val <= MAX_AGE_SECONDS}
  IN [nt \in keep |-> backups[nt]]

\* bool(entry): a dict is false exactly when it has no member.
Truthy(e) ==
  ~(e.ls_kind = "missing" /\ e.fields_kind = "missing" /\ e.tags_kind = "missing")

\* The result of get: None is <<>>, an entry e is <<e>>.
None == <<>>

\* Faulty variant of _load_backup_for_notetype: the pruned mapping is not
\* written back (lines 146 and 160 left out).
load_backup_without_cleanup(f, nt_name, flt, t1, t2) ==
  IF nt_name = "" THEN [exc |-> "none", file |-> f, failed |-> {}, ret |-> None]
  ELSE
    LET loaded == _load_all_backups(f, flt.read)
        backups == _prune_old_backups(loaded.val, t1)
        absent == [exc |-> "none", file |-> f, failed |-> loaded.failed, ret |-> None]
    IN IF nt_name \notin DOMAIN backups THEN absent
       ELSE IF ~Truthy(backups[nt_name]) THEN absent
       ELSE IF float_last_saved(backups[nt_name]).exc # "none" THEN absent
       ELSE IF t2 - float_last_saved(backups[nt_name]).val > MAX_AGE_SECONDS THEN absent
       ELSE [absent EXCEPT !.ret = <<backups[nt_name]>>]

\* t1 is the clock read of _prune_old_backups, t2 that of line 157.
_load_backup_for_notetype(f, nt_name, flt, t1, t2) ==
  IF nt_name = "" THEN [exc |-> "none", file |-> f, failed |-> {}, ret |-> None]
  ELSE
    LET loaded == _load_all_backups(f, flt.read)
        backups == _prune_old_backups(loaded.val, t1)
        s1 == _save_all_backups(f, backups, flt.w1)
        absent == [exc |-> "none", file |-> s1.file,
                   failed |-> loaded.failed \cup s1.failed, ret |-> None]
    IN IF nt_name \notin DOMAIN backups THEN absent
       ELSE IF ~Truthy(backups[nt_name]) THEN absent
       ELSE IF float_last_saved(backups[nt_name]).exc # "none" THEN absent
       ELSE IF t2 - float_last_saved(backups[nt_name]).val > MAX_AGE_SECONDS
         THEN LET s2 == _save_all_backups(s1.file, Pop(backups, nt_name), flt.w2)
              IN [absent EXCEPT !.file = s2.file,
                                !.failed = absent.failed \cup s2.failed]
       ELSE [absent EXCEPT !.ret = <<backups[nt_name]>>]

\* Faulty variant of _save_backup_for_notetype: an entry already there is
\* kept (backups.setdefault instead of the assignment of line 174).
save_backup_keeping_existing(f, nt_name, fields, tags, flt, t1, t2) ==
  IF nt_name = "" THEN [exc |-> "none", file |-> f, failed |-> {}]
  ELSE
    LET loaded == _load_all_backups(f, flt.read)
        backups == _prune_old_backups(loaded.val, t1)
        s1 == _save_all_backups(f,
                IF nt_name \in DOMAIN backups THEN backups
                ELSE Put(backups, nt_name, Entry(t2, fields, tags)),
                flt.w1)
    IN [s1 EXCEPT !.failed = loaded.failed \cup s1.failed]

\* Faulty variant of _save_backup_for_notetype: the file is written with
\* the new entry alone, as a store of one draft would.
save_backup_alone(f, nt_name, fields, tags, flt, t1, t2) ==
  IF nt_name = "" THEN [exc |-> "none", file |-> f, failed |-> {}]
  ELSE
    LET loaded == _load_all_backups(f, flt.read)
        s1 == _save_all_backups(f, Put(EmptyMap, nt_name, Entry(t2, fields, tags)),
                                flt.w1)
    IN [s1 EXCEPT !.failed = loaded.failed \cup s1.failed]

\* Faulty variant of _save_backup_for_notetype: the loaded mapping is not
\* pruned (line 172 left out).
save_backup_without_prune(f, nt_name, fields, tags, flt, t1, t2) ==
  IF nt_name = "" THEN [exc |-> "none", file |-> f, failed |-> {}]
  ELSE
    LET loaded == _load_all_backups(f, flt.read)
        s1 == _save_all_backups(f, Put(loaded.val, nt_name, Entry(t2, fields, tags)),
                                flt.w1)
    IN [s1 EXCEPT !.failed = loaded.failed \cup s1.failed]

\* t1 is the clock read of _prune_old_backups, t2 that of line 175.
_save_backup_for_notetype(f, nt_name, fields, tags, flt, t1, t2) ==
  IF nt_name = "" THEN [exc |-> "none", file |-> f, failed |-> {}]
  ELSE
    LET loaded == _load_all_backups(f, flt.read)
        backups == _prune_old_backups(loaded.val, t1)
        s1 == _save_all_backups(f, Put(backups, nt_name, Entry(t2, fields, tags)),
                                flt.w1)
    IN [s1 EXCEPT !.failed = loaded.failed \cup s1.failed]

\* os.remove(path)
os_remove(f, rm) ==
  IF f.kind = "absent" THEN [exc |-> "FileNotFoundError", file |-> f, failed |-> {}]
  ELSE IF rm = "fail" THEN [exc |-> "PermissionError", file |-> f, failed |-> {"remove"}]
  ELSE [exc |-> "none", file |-> AbsentFile, failed |-> {}]

\* Faulty variant of _clear_backup_for_notetype: the mapping is rewritten,
\* or the file removed, also when the key was not found (the test of line
\* 188 left out).
clear_backup_rewriting_always(f, nt_name, flt) ==
  IF nt_name = "" THEN [exc |-> "none", file |-> f, failed |-> {}]
  ELSE
    LET loaded == _load_all_backups(f, flt.read)
        backups == loaded.val
        done == IF Pop(backups, nt_name) # EmptyMap
                  THEN _save_all_backups(f, Pop(backups, nt_name), flt.w1)
                ELSE Swallow(os_remove(f, flt.rm))
    IN [done EXCEPT !.failed = loaded.failed \cup done.failed]

\* Faulty variant of _clear_backup_for_notetype: the reduced mapping is
\* not written back (line 191 left out).
clear_backup_without_write(f, nt_name, flt) ==
  IF nt_name = "" THEN [exc |-> "none", file |-> f, failed |-> {}]
  ELSE
    LET loaded == _load_all_backups(f, flt.read)
        backups == loaded.val
        done == IF nt_name \in DOMAIN backups /\ Pop(backups, nt_name) = EmptyMap
                  THEN Swallow(os_remove(f, flt.rm))
                ELSE [exc |-> "none", file |-> f, failed |-> {}]
    IN [done EXCEPT !.failed = loaded.failed \cup done.failed]

\* Faulty variant of _clear_backup_for_notetype: the reduced mapping is
\* written also when it is empty (the test of line 190 left out).
clear_backup_writing_empty(f, nt_name, flt) ==
  IF nt_name = "" THEN [exc |-> "none", file |-> f, failed |-> {}]
  ELSE
    LET loaded == _load_all_backups(f, flt.read)
        backups == loaded.val
        done == IF nt_name \in DOMAIN backups
                  THEN _save_all_backups(f, Pop(backups, nt_name), flt.w1)
                ELSE [exc |-> "none", file |-> f, failed |-> {}]
    IN [done EXCEPT !.failed = loaded.failed \cup done.failed]

\* Faulty variant of _clear_backup_for_notetype: the file is removed as
\* soon as the key is found, whatever else the mapping holds.
clear_backup_removing_file(f, nt_name, flt) ==
  IF nt_name = "" THEN [exc |-> "none", file |-> f, failed |-> {}]
  ELSE
    LET loaded == _load_all_backups(f, flt.read)
        done == IF nt_name \in DOMAIN loaded.val
                  THEN Swallow(os_remove(f, flt.rm))
                ELSE [exc |-> "none", file |-> f, failed |-> {}]
    IN [done EXCEPT !.failed = loaded.failed \cup done.failed]

_clear_backup_for_notetype(f, nt_name, flt) ==
  IF nt_name = "" THEN [exc |-> "none", file |-> f, failed |-> {}]
  ELSE
    LET loaded == _load_all_backups(f, flt.read)
        backups == loaded.val
        done == IF nt_name \in DOMAIN backups
                  THEN IF Pop(backups, nt_name) # EmptyMap
                         THEN _save_all_backups(f, Pop(backups, nt_name), flt.w1)
                       ELSE Swallow(os_remove(f, flt.rm))
                ELSE [exc |-> "none", file |-> f, failed |-> {}]
    IN [done EXCEPT !.failed = loaded.failed \cup done.failed]

_clear_all_backups(f, flt) == Swallow(os_remove(f, flt.rm))

----------------------------------------------------------------------------
(* Notes and the Add dialog *)

Note(nt, fields, tags) == [nt |-> nt, fields |-> fields, tags |-> tags]

\* The notes a form can be bound to: a type name, one value per field of
\* the type, a tag list.  Each type has its blank note and notes that differ
\* in the position of their text and in their tags; the last one is of a
\* note type without a name.
Notes ==
  {Note("Basic", <<"", "">>, <<>>), Note("Basic", <<"f", "">>, <<"t">>),
   Note("Basic", <<"", "f">>, <<>>),
   Note("Cloze", <<"">>, <<>>), Note("Cloze", <<"f">>, <<"t">>),
   Note("", <<"f">>, <<"t">>)}

\* An AddCards instance.  bound is FALSE when editor.note is None.
\* last_nt_name is _draft_autosave_last_nt_name, timer whether the QTimer
\* of the dialog is running.
Dialog(phase, bound, note, last_nt_name, timer) ==
  [phase |-> phase, bound |-> bound, nt |-> note.nt, fields |-> note.fields,
   tags |-> note.tags, last_nt_name |-> last_nt_name, timer |-> timer]

NoNote == [nt |-> "", fields |-> <<>>, tags |-> <<>>]

NoDialog == Dialog("none", FALSE, NoNote, "", FALSE)

Dialogs == {1, 2}

_note_type_name(d) == IF ~d.bound THEN "" ELSE d.nt

_extract_fields(d) == d.fields

\* Faulty variant of _apply_fields: the fields past the end of the stored
\* list are blanked instead of left alone.
apply_fields_blanking_rest(note_fields, fields) ==
  [i \in 1..Len(note_fields) |->
     IF i <= Len(fields) THEN fields[i] ELSE ""]

\* Faulty variant of _apply_fields: field i is set from fields[i + 1].
apply_fields_shifted(note_fields, fields) ==
  [i \in 1..Len(note_fields) |->
     IF i < Len(fields) THEN fields[i + 1] ELSE note_fields[i]]

\* note[field_name] = fields[i] for every field i of the note with
\* i < len(fields)
_apply_fields(note_fields, fields) ==
  [i \in 1..Len(note_fields) |->
     IF i <= Len(fields) THEN fields[i] ELSE note_fields[i]]

\* Faulty variant of _restore_into_add_dialog: the draft is looked up but
\* not applied to the note.
restore_without_applying(d, f, flt, t1, t2, ui) ==
  LET got == _load_backup_for_notetype(f, _note_type_name(d), flt, t1, t2)
  IN [exc |-> "none", dialog |-> d, file |-> got.file,
      failed |-> got.failed, ret |-> got.ret, calls |-> <<>>]

\* ui is what the editor lets the refresh do: "keeping_focus" when
\* loadNoteKeepingFocus works, "load_note" when it raises and loadNote is
\* tried.  calls lists the refresh calls made.
_restore_into_add_dialog(d, f, flt, t1, t2, ui) ==
  LET nt_name == _note_type_name(d)
      got == _load_backup_for_notetype(f, nt_name, flt, t1, t2)
      quiet == [exc |-> "none", dialog |-> d, file |-> got.file,
                failed |-> got.failed, ret |-> got.ret, calls |-> <<>>]
  IN IF nt_name = "" THEN quiet
     ELSE IF got.ret = None THEN quiet
     ELSE IF got.ret[1].fields_kind # "list" THEN quiet
     ELSE
       LET applied == [d EXCEPT !.fields = _apply_fields(d.fields, got.ret[1].fields)]
           tagged == IF got.ret[1].tags_kind = "list"
                       THEN [applied EXCEPT !.tags = got.ret[1].tags]
                     ELSE applied
       IN [quiet EXCEPT
             !.dialog = tagged,
             !.calls = IF ui = "keeping_focus" THEN <<"loadNoteKeepingFocus">>
                       ELSE <<"loadNoteKeepingFocus", "loadNote">>]

\* _draft_autosave_last_nt_name = "", timer.start()
_start_autosave_timer(d) == [d EXCEPT !.last_nt_name = "", !.timer = TRUE]

\* The timer's callback.
\* Faulty variant of do_autosave: the note type name is not tested (lines
\* 268-269 left out).
do_autosave_without_key_test(d, f, flt, t1, t2) ==
  IF ~d.bound THEN [dialog |-> d, file |-> f, failed |-> {}, calls |-> <<>>]
  ELSE LET r == _save_backup_for_notetype(f, _note_type_name(d),
                  _extract_fields(d), d.tags, flt, t1, t2)
       IN [dialog |-> [d EXCEPT !.last_nt_name = _note_type_name(d)],
           file |-> r.file, failed |-> r.failed,
           calls |-> <<"_save_backup_for_notetype">>]

\* Faulty variant of do_autosave: the timer is stopped when a storage call
\* of the save failed.
do_autosave_stopping_on_failure(d, f, flt, t1, t2) ==
  IF ~d.bound THEN [dialog |-> d, file |-> f, failed |-> {}, calls |-> <<>>]
  ELSE IF _note_type_name(d) = ""
    THEN [dialog |-> d, file |-> f, failed |-> {}, calls |-> <<>>]
  ELSE LET r == _save_backup_for_notetype(f, _note_type_name(d),
                  _extract_fields(d), d.tags, flt, t1, t2)
       IN [dialog |-> [d EXCEPT !.last_nt_name = _note_type_name(d),
                                !.timer = r.failed = {}],
           file |-> r.file, failed |-> r.failed,
           calls |-> <<"_save_backup_for_notetype">>]

do_autosave(d, f, flt, t1, t2) ==
  IF ~d.bound THEN [dialog |-> d, file |-> f, failed |-> {}, calls |-> <<>>]
  ELSE IF _note_type_name(d) = ""
    THEN [dialog |-> d, file |-> f, failed |-> {}, calls |-> <<>>]
  ELSE LET r == _save_backup_for_notetype(f, _note_type_name(d),
                  _extract_fields(d), d.tags, flt, t1, t2)
       IN [dialog |-> [d EXCEPT !.last_nt_name = _note_type_name(d)],
           file |-> r.file, failed |-> r.failed,
           calls |-> <<"_save_backup_for_notetype">>]

\* Faulty variant of original_close_event: the window is closed but the
\* dialog object, and with it the QTimer it owns, stays alive.
original_close_event_keeping_object(d) == [d EXCEPT !.phase = "none"]

\* The host's closeEvent: the dialog goes away, and its child QTimer with it.
original_close_event(d) == NoDialog

\* Faulty variant of close_cleanup: no fallback when no note type was
\* autosaved.
close_cleanup_without_fallback(d, f, flt) ==
  [call |-> "_clear_backup_for_notetype",
   r |-> _clear_backup_for_notetype(f, d.last_nt_name, flt)]

\* The cleanup of wrapped_close_event, lines 304-317: the call it makes and
\* the file it leaves.
close_cleanup(d, f, flt) ==
  IF d.last_nt_name # ""
    THEN [call |-> "_clear_backup_for_notetype",
          r |-> _clear_backup_for_notetype(f, d.last_nt_name, flt)]
  ELSE [call |-> "_clear_all_backups", r |-> _clear_all_backups(f, flt)]

\* Faulty variant of wrapped_close_event: the handler returns when a storage
\* call of the cleanup failed, before it reaches original_close_event.
wrapped_close_event_returning_on_failure(d, f, flt) ==
  LET c == close_cleanup(d, f, flt)
  IN IF c.r.failed # {}
       THEN [exc |-> "none", file |-> c.r.file, failed |-> c.r.failed,
             dialog |-> d, calls |-> <<c.call>>]
     ELSE [exc |-> "none", file |-> c.r.file, failed |-> c.r.failed,
           dialog |-> original_close_event(d),
           calls |-> <<c.call, "original_close_event">>]

\* calls lists, in order, what the handler called.  An exception of the
\* cleanup is caught at line 315; the handler then goes on to line 320.
wrapped_close_event(d, f, flt) ==
  LET c == close_cleanup(d, f, flt)
      caught == Swallow(c.r)
  IN IF caught.exc # "none"
       THEN [exc |-> caught.exc, file |-> caught.file, failed |-> caught.failed,
             dialog |-> d, calls |-> <<c.call>>]
     ELSE [exc |-> "none", file |-> caught.file, failed |-> caught.failed,
           dialog |-> original_close_event(d),
           calls |-> <<c.call, "original_close_event">>]

\* Faulty variant of on_add_cards_did_add_note: every draft is cleared.
on_add_note_clearing_all(d, f, flt) ==
  IF _note_type_name(d) # "" THEN _clear_all_backups(f, flt)
  ELSE [exc |-> "none", file |-> f, failed |-> {}]

\* The hook of add_cards_did_add_note, for the note the dialog added.
on_add_cards_did_add_note(d, f, flt) ==
  IF _note_type_name(d) # ""
    THEN _clear_backup_for_notetype(f, _note_type_name(d), flt)
  ELSE [exc |-> "none", file |-> f, failed |-> {}]

----------------------------------------------------------------------------
(* The state machine *)

\* The outcomes the storage calls of a save can have: it reads and writes
\* once.
SaveFaults == {x \in [DOMAIN NoFaults -> WriteOutcomes \cup {"fail"}] :
                 /\ x.read \in {"ok", "fail"}
                 /\ x.w1 \in WriteOutcomes
                 /\ x.w2 = "ok"
                 /\ x.rm = "ok"}

\* Those of a get: it writes a second time only when the clock has advanced
\* between its two reads of it.
GetFaults(t1, t2) ==
  {[x EXCEPT !.w2 = w] : x \in SaveFaults,
                         w \in IF t2 > t1 THEN WriteOutcomes ELSE {"ok"}}

\* Those of a clear: it reads, then either writes or removes, so one choice
\* stands for the outcome of whichever it does.
ClearFaults ==
  {[x EXCEPT !.rm = IF x.w1 = "ok" THEN "ok" ELSE "fail"] : x \in SaveFaults}

\* Those of a clear_all: it only removes.
ClearAllFaults == {[NoFaults EXCEPT !.rm = r] : r \in {"ok", "fail"}}

\* What a second call of time.time() in the same operation can return.
SecondRead == {now} \cup (IF now < MaxTime THEN {now + 1} ELSE {})

\* The mapping a file holds for the store: that of a JSON object, none
\* otherwise.
Persisted(f) == IF f.kind = "object" THEN f.data ELSE EmptyMap

\* The entry persisted under a key: <<>> when there is none, else <<e>>.
Had(f, nt_name) ==
  IF nt_name \in DOMAIN Persisted(f) THEN <<Persisted(f)[nt_name]>> ELSE <<>>

\* The record of the step taken last: op names the handler ("env" for a
\* step of the host, the user or the clock), s the dialog, nt, fields and
\* tags the arguments, failed the kinds of storage call that failed, ret and
\* loaded what was returned, calls what was called.  For a get, had is the
\* entry persisted under nt before the step; for a clear, found says that
\* there was one (for a clear_all, that the file existed).  after names the
\* handler that ran before this step when that was the crash (however many
\* steps of the environment lie between), for a get, a save in the step
\* just before it, with the key of the save, for a tick, a tick in the
\* step just before it whose write failed, with its note type, for a
\* clear, a clear in the step just before it, with its key, or, for steps of
\* the environment, the close they follow, with the type it cleared.  A
\* close of a session that has autosaved note type T while another open
\* session has too is marked <<"overlap", T>>, and the mark stays through
\* the ticks, the closes and the steps of the environment that follow.
\* The steps of the environment after a session initialisation, and the
\* first tick after them, carry RestoreMark.
NoOp ==
  [op |-> "init", s |-> 0, nt |-> "", fields |-> <<>>, tags |-> <<>>,
   failed |-> {}, ret |-> None, loaded |-> EmptyDict, calls |-> <<>>,
   had |-> <<>>, found |-> FALSE, after |-> <<"", "">>]

\* What the session initialisation that ran last, followed by steps of the
\* environment only, did for the note type T of its form when its storage
\* calls succeeded: <<"restored", T>> when it applied the fields and tags of
\* a draft, <<"unrestored", T>> when it did not.
RestoreMark ==
  IF last.op = "open" /\ last.failed = {} /\ last.nt # ""
    THEN IF /\ last.ret # None
            /\ last.ret[1].fields_kind = "list"
            /\ last.ret[1].tags_kind = "list"
           THEN <<"restored", last.nt>>
         ELSE <<"unrestored", last.nt>>
  ELSE IF last.op = "env" /\ last.after[1] \in {"restored", "unrestored"}
    THEN last.after
  ELSE <<"", "">>

After(op) ==
  IF last.op = "crash" THEN <<"crash", "">>
  ELSE IF last.after[1] = "overlap" /\ op \in {"env", "tick", "close"}
    THEN last.after
  ELSE IF last.op \in {"init", "env"} /\ last.after[1] = "crash" THEN last.after
  ELSE IF last.op = "save" /\ op = "get" THEN <<"save", last.nt>>
  ELSE IF last.op = "tick" /\ "write" \in last.failed /\ op = "tick"
    THEN <<"failed_tick", last.nt>>
  ELSE IF last.op = "clear" /\ op = "clear" THEN <<"clear", last.nt>>
  ELSE IF last.op = "close" /\ op = "env" THEN <<"close", last.nt>>
  ELSE IF last.op = "env" /\ last.after[1] = "close" /\ op = "env" THEN last.after
  ELSE IF op \in {"env", "tick"} /\ RestoreMark[1] # "" THEN RestoreMark
  ELSE <<"", "">>

Env == [NoOp EXCEPT !.op = "env", !.after = After("env")]

Did(op, s, nt, failed) ==
  [NoOp EXCEPT !.op = op, !.s = s, !.nt = nt, !.failed = failed,
               !.after = After(op)]

\* Dialog s and another open dialog have both autosaved the same note type.
Overlapping(s) ==
  /\ dialogs[s].last_nt_name # ""
  /\ \E o \in Dialogs \ {s} :
       /\ dialogs[o].phase = "open"
       /\ dialogs[o].last_nt_name = dialogs[s].last_nt_name

\* The hook of add_cards_did_init runs synchronously when the host has
\* constructed the dialog: nothing else runs in between.
NoPending == \A s \in Dialogs : dialogs[s].phase # "constructed"

ClockTick ==
  /\ now < MaxTime
  /\ now' = now + 1
  /\ last' = Env
  /\ UNCHANGED <<file, dialogs>>

\* The host constructs an AddCards dialog, its editor bound to a note or to
\* none.
AddCardsInit(s) ==
  /\ NoPending
  /\ dialogs[s].phase = "none"
  /\ \E d \in {Dialog("constructed", TRUE, n, "", FALSE) : n \in Notes}
            \cup {Dialog("constructed", FALSE, NoNote, "", FALSE)} :
       dialogs' = [dialogs EXCEPT ![s] = d]
  /\ last' = Env
  /\ UNCHANGED <<file, now>>

on_add_cards_did_init(s) ==
  /\ dialogs[s].phase = "constructed"
  /\ \E t2 \in SecondRead, ui \in {"keeping_focus", "load_note"} :
     \E flt \in GetFaults(now, t2) :
       LET r == _restore_into_add_dialog(dialogs[s], file, flt, now, t2, ui)
       IN /\ dialogs' = [dialogs EXCEPT
                 ![s] = [_start_autosave_timer(r.dialog) EXCEPT !.phase = "open"]]
          /\ file' = r.file
          /\ now' = t2
          /\ last' = [Did("open", s, _note_type_name(dialogs[s]), r.failed)
                        EXCEPT !.ret = r.ret, !.calls = r.calls,
                               !.had = Had(file, _note_type_name(dialogs[s]))]

\* The QTimer of dialog s times out: it does whenever it is running.
Tick(s) ==
  /\ NoPending
  /\ dialogs[s].timer
  /\ \E flt \in SaveFaults, t2 \in SecondRead :
       LET r == do_autosave(dialogs[s], file, flt, now, t2)
       IN /\ dialogs' = [dialogs EXCEPT ![s] = r.dialog]
          /\ file' = r.file
          /\ now' = t2
          /\ last' = [Did("tick", s, _note_type_name(dialogs[s]), r.failed)
                        EXCEPT !.calls = r.calls]

\* The user edits the form, switches the note type, or the host binds the
\* editor to another note or to none.
SetNote(s) ==
  /\ NoPending
  /\ dialogs[s].phase = "open"
  /\ \E d \in {[dialogs[s] EXCEPT !.bound = TRUE, !.nt = n.nt, !.fields = n.fields,
                                  !.tags = n.tags] : n \in Notes}
            \cup {[dialogs[s] EXCEPT !.bound = FALSE, !.nt = "", !.fields = <<>>,
                                     !.tags = <<>>]} :
       /\ d # dialogs[s]
       /\ dialogs' = [dialogs EXCEPT ![s] = d]
  /\ last' = Env
  /\ UNCHANGED <<file, now>>

\* The host added the dialog's note and runs the add_cards_did_add_note hook.
AddNote(s) ==
  /\ NoPending
  /\ dialogs[s].phase = "open"
  /\ dialogs[s].bound
  /\ \E flt \in ClearFaults :
       LET r == on_add_cards_did_add_note(dialogs[s], file, flt)
       IN /\ file' = r.file
          /\ last' = [Did("commit", s, _note_type_name(dialogs[s]), r.failed)
                        EXCEPT !.found = Had(file, _note_type_name(dialogs[s])) # <<>>]
  /\ UNCHANGED <<now, dialogs>>

CloseEvent(s) ==
  /\ NoPending
  /\ dialogs[s].phase = "open"
  /\ \E flt \in ClearFaults :
       LET r == wrapped_close_event(dialogs[s], file, flt)
       IN /\ dialogs' = [dialogs EXCEPT ![s] = r.dialog]
          /\ file' = r.file
          /\ last' = [Did("close", s, dialogs[s].last_nt_name, r.failed)
                        EXCEPT !.calls = r.calls,
                               !.after = IF Overlapping(s)
                                           THEN <<"overlap", dialogs[s].last_nt_name>>
                                         ELSE After("close"),
                               !.found = IF dialogs[s].last_nt_name = ""
                                           THEN file.kind # "absent"
                                         ELSE Had(file, dialogs[s].last_nt_name) # <<>>]
  /\ now' = now

\* The process dies (crash, power loss): no handler runs, the dialogs and
\* everything in memory are gone, the file stays.
Crash ==
  /\ \E s \in Dialogs : dialogs[s].phase # "none"
  /\ dialogs' = [s \in Dialogs |-> NoDialog]
  /\ last' = Did("crash", 0, "", {})
  /\ UNCHANGED <<file, now>>

----------------------------------------------------------------------------
(* Specification of the sessions: the host keeps one Add dialog at a time *)

StaleEntry == Entry(0, <<"f">>, <<"t">>)

\* A draft of a note type that had three fields when it was saved.
LongEntry == Entry(MinTime, <<"f", "", "f">>, <<"t">>)

\* A draft of a note type that had one field when it was saved.
ShortEntry == Entry(MinTime, <<"f">>, <<>>)

NoTagsEntry == [Entry(MinTime, <<"f">>, <<>>) EXCEPT !.tags_kind = "other"]

NoFieldsEntry == [Entry(MinTime, <<>>, <<"t">>) EXCEPT !.fields_kind = "other"]

NoStampEntry == [Entry(0, <<"f">>, <<>>) EXCEPT !.ls_kind = "missing"]

BadStampEntry == [Entry(0, <<"f">>, <<>>) EXCEPT !.ls_kind = "bad"]

\* The JSON object {}
EmptyEntry ==
  [Entry(0, <<>>, <<>>) EXCEPT !.ls_kind = "missing", !.fields_kind = "missing",
                               !.tags_kind = "missing"]

InitFiles ==
  {AbsentFile, GarbageFile, ArrayFile,
   ObjectFile([nt \in {"Cloze"} |-> StaleEntry]),
   ObjectFile([nt \in {"Basic"} |-> LongEntry]),
   ObjectFile([nt \in {"Basic"} |-> ShortEntry]),
   ObjectFile([nt \in NoteTypes |-> IF nt = "Basic" THEN NoFieldsEntry ELSE NoTagsEntry])}

Init ==
  /\ file \in InitFiles
  /\ now = MinTime
  /\ dialogs = [s \in Dialogs |-> NoDialog]
  /\ last = NoOp

Next ==
  \/ ClockTick
  \/ AddCardsInit(1)
  \/ \E s \in Dialogs : on_add_cards_did_init(s)
  \/ \E s \in Dialogs : Tick(s)
  \/ \E s \in Dialogs : SetNote(s)
  \/ \E s \in Dialogs : AddNote(s)
  \/ \E s \in Dialogs : CloseEvent(s)
  \/ Crash

Spec == Init /\ [][Next]_vars

----------------------------------------------------------------------------
(* Specification of the draft store: its functions called directly, in any
   order, on any file *)

\* An empty nt_name makes no storage call and reads no clock.
get(nt_name) ==
  \E t2 \in IF nt_name = "" THEN {now} ELSE SecondRead :
  \E flt \in IF nt_name = "" THEN {NoFaults} ELSE GetFaults(now, t2) :
    LET r == _load_backup_for_notetype(file, nt_name, flt, now, t2)
    IN /\ file' = r.file
       /\ now' = t2
       /\ last' = [Did("get", 0, nt_name, r.failed)
                     EXCEPT !.ret = r.ret, !.had = Had(file, nt_name)]
       /\ UNCHANGED dialogs

save(nt_name, fields, tags) ==
  \E t2 \in IF nt_name = "" THEN {now} ELSE SecondRead :
  \E flt \in IF nt_name = "" THEN {NoFaults} ELSE SaveFaults :
    LET r == _save_backup_for_notetype(file, nt_name, fields, tags, flt, now, t2)
    IN /\ file' = r.file
       /\ now' = t2
       /\ last' = [Did("save", 0, nt_name, r.failed)
                     EXCEPT !.fields = fields, !.tags = tags]
       /\ UNCHANGED dialogs

clear(nt_name) ==
  \E flt \in IF nt_name = "" THEN {NoFaults} ELSE ClearFaults :
    LET r == _clear_backup_for_notetype(file, nt_name, flt)
    IN /\ file' = r.file
       /\ last' = [Did("clear", 0, nt_name, r.failed)
                     EXCEPT !.found = Had(file, nt_name) # <<>>]
       /\ UNCHANGED <<now, dialogs>>

clear_all ==
  \E flt \in ClearAllFaults :
    LET r == _clear_all_backups(file, flt)
    IN /\ file' = r.file
       /\ last' = [Did("clear_all", 0, "", r.failed)
                     EXCEPT !.found = file.kind # "absent"]
       /\ UNCHANGED <<now, dialogs>>

load_all ==
  \E read \in {"ok", "fail"} :
    LET r == _load_all_backups(file, read)
    IN /\ last' = [Did("load_all", 0, "", r.failed) EXCEPT !.loaded = r]
       /\ UNCHANGED <<file, now, dialogs>>

\* The entries a file can hold when the store is first called: drafts of
\* any age, and entries that are not what the add-on writes.
StoreInitEntries ==
  {Entry(ls, <<"f">>, <<"t">>) : ls \in 0..MinTime - 1}
  \cup {NoFieldsEntry, NoStampEntry, BadStampEntry, EmptyEntry}

StoreInitFiles ==
  {AbsentFile, GarbageFile, ArrayFile}
  \cup {ObjectFile(m) : m \in UNION {[D -> StoreInitEntries] : D \in SUBSET NoteTypes}}

StoreInit ==
  /\ file \in StoreInitFiles
  /\ now = MinTime
  /\ dialogs = [s \in Dialogs |-> NoDialog]
  /\ last = NoOp

StoreNext ==
  \/ ClockTick
  \/ \E nt_name \in TypeNames : get(nt_name)
  \/ \E nt_name \in TypeNames, d \in Drafts : save(nt_name, d.fields, d.tags)
  \/ \E nt_name \in TypeNames : clear(nt_name)
  \/ clear_all
  \/ load_all

StoreSpec == StoreInit /\ [][StoreNext]_vars

----------------------------------------------------------------------------
(* Properties of the draft store, checked under StoreSpec *)

\* An entry that _prune_old_backups keeps at time t.
Unexpired(e, t) == e.ls_kind = "num" /\ t - e.last_saved <= MAX_AGE_SECONDS

\* An entry as _save_backup_for_notetype writes it.
WellFormed(e) == e.ls_kind = "num" /\ e.fields_kind = "list" /\ e.tags_kind = "list"

\* C1: round trip with overwrite.  When save(T, F, Ts) with a non-empty T is
\* followed at once by get(T), and the storage calls of both succeed, get
\* returns an entry whose fields are F and whose tags are Ts, and that entry
\* is the one persisted under T, whatever the file held before the save.
C1_RoundTrip ==
  [][(/\ last.op = "save" /\ last.nt # "" /\ last.failed = {}
      /\ last'.op = "get" /\ last'.nt = last.nt /\ last'.failed = {})
     => (/\ last'.ret # None
         /\ last'.ret[1].fields_kind = "list"
         /\ last'.ret[1].fields = last.fields
         /\ last'.ret[1].tags_kind = "list"
         /\ last'.ret[1].tags = last.tags
         /\ Had(file', last.nt) = last'.ret)]_vars

\* A get of "Basic" right after a save of "Basic" returned the draft saved.
C1_Witness ==
  /\ last.op = "get" /\ last.nt = "Basic" /\ last.failed = {}
  /\ last.after = <<"save", "Basic">>
  /\ last.ret # None
  /\ last.ret[1].fields = <<"", "f">>
  /\ last.had # <<>> /\ last.had = last.ret

\* C8: age expiry on read.  For a get(T) whose storage calls succeed and an
\* entry e persisted under T: if e.last_saved = now - MAX_AGE - 1, get
\* returns None and no entry is persisted under T afterwards; if
\* e.last_saved = now - MAX_AGE + 1, get returns e and e stays persisted.
\* In general e is returned and kept exactly when its last_saved is a number
\* with clock - last_saved <= MAX_AGE, the clock being the one get reads
\* last; a missing or unparseable last_saved counts as expired.
C8_AgeExpiryOnRead ==
  [][(/\ last'.op = "get" /\ last'.nt # "" /\ last'.failed = {}
      /\ Had(file, last'.nt) # <<>>)
     => LET T == last'.nt
            e == Had(file, T)[1]
            kept == last'.ret = <<e>> /\ Had(file', T) = <<e>>
            gone == last'.ret = None /\ Had(file', T) = <<>>
        IN /\ (e.ls_kind = "num" /\ e.last_saved = now - MAX_AGE_SECONDS - 1) => gone
           /\ (e.ls_kind = "num" /\ e.last_saved = now - MAX_AGE_SECONDS + 1) => kept
           /\ Unexpired(e, now') => kept
           /\ ~Unexpired(e, now') => gone]_vars

\* A get found a draft one unit past MAX_AGE, returned None and removed it.
C8_Witness ==
  /\ last.op = "get" /\ last.nt # "" /\ last.failed = {}
  /\ last.had # <<>>
  /\ last.had[1].ls_kind = "num"
  /\ last.had[1].last_saved = now - MAX_AGE_SECONDS - 1
  /\ last.ret = None
  /\ Had(file, last.nt) = <<>>

\* C9 as stated: whenever get, save or clear persists the mapping, the
\* mapping written holds no entry with now - last_saved > MAX_AGE (now being
\* the clock when the operation starts).  It is stated here for files that
\* hold only entries as the add-on writes them.
C9_Original ==
  [][(/\ last'.op \in {"get", "save", "clear"} /\ last'.nt # ""
      /\ last'.failed = {}
      /\ \A T \in DOMAIN Persisted(file) : WellFormed(Persisted(file)[T])
      /\ file'.kind = "object"
      /\ last'.op = "clear" => last'.found)
     => \A T \in DOMAIN file'.data :
          file'.data[T].ls_kind = "num"
            => now - file'.data[T].last_saved <= MAX_AGE_SECONDS]_vars

\* C9 as amended: whenever get or save persists the mapping, the mapping
\* written holds no entry with now - last_saved > MAX_AGE (nor one whose
\* last_saved is missing or unparseable); clear does not prune.
C9_PruneBeforePersist ==
  [][(/\ last'.op \in {"get", "save"} /\ last'.nt # ""
      /\ last'.failed = {})
     => (/\ file'.kind = "object"
         /\ \A T \in DOMAIN file'.data : Unexpired(file'.data[T], now))]_vars

\* A get dropped an entry that was expired or had no usable last_saved and
\* wrote back a mapping that still holds the other key.
C9_Witness ==
  /\ last.op = "get" /\ last.nt # "" /\ last.failed = {}
  /\ last.had # <<>>
  /\ ~Unexpired(last.had[1], now)
  /\ file.kind = "object"
  /\ DOMAIN file.data # {}
  /\ last.nt \notin DOMAIN file.data

\* C10: corruption tolerance.  load_all returns the empty mapping and raises
\* nothing when the file is absent, holds bytes that are no JSON, holds JSON
\* whose top-level value is no object, or cannot be read.
C10_CorruptionTolerance ==
  (/\ last.op = "load_all"
   /\ file.kind \in {"absent", "garbage", "array"} \/ "read" \in last.failed)
  => (/\ last.loaded.exc = "none"
      /\ last.loaded.isdict
      /\ last.loaded.val = EmptyMap)

\* load_all ran on a file that holds a JSON array and returned {}.
C10_Witness ==
  /\ last.op = "load_all"
  /\ file.kind = "array"
  /\ last.loaded.isdict
  /\ last.loaded.val = EmptyMap

\* C11: idempotent clear.  clear raises no error; a clear of a key under
\* which nothing is persisted leaves the file as it is (same existence,
\* same content); a clear whose storage calls succeed leaves no entry under
\* its key; and a clear of T directly after a clear of T whose storage calls
\* succeeded leaves the file as the first clear left it.
C11_IdempotentClear ==
  /\ [](\A T \in TypeNames, flt \in ClearFaults :
          _clear_backup_for_notetype(file, T, flt).exc = "none")
  /\ [][/\ (last'.op = "clear" /\ Had(file, last'.nt) = <<>>) => file' = file
        /\ (last'.op = "clear" /\ last'.failed = {})
           => Had(file', last'.nt) = <<>>
        /\ (/\ last.op = "clear" /\ last.failed = {}
            /\ last'.op = "clear" /\ last'.nt = last.nt)
           => file' = file]_vars

\* A second clear of "Basic" in a row found nothing to remove and left the
\* file, which holds a draft of "Cloze", as it was.
C11_Witness ==
  /\ last.op = "clear" /\ last.nt = "Basic"
  /\ last.after = <<"clear", "Basic">>
  /\ ~last.found
  /\ last.failed = {}
  /\ Had(file, "Cloze") # <<>>

\* C12: last-entry deletion.  When the storage calls of clear(T) succeed
\* and the file holds an entry for T: if it is the only entry, the file
\* does not exist afterwards; otherwise the file exists and holds the
\* mapping without T.  A save of a non-empty key that finds no file and
\* whose storage calls succeed creates it, with an entry under the key.
C12_LastEntryDeletion ==
  [][/\ (/\ last'.op = "clear" /\ last'.failed = {}
         /\ Had(file, last'.nt) # <<>>)
        => IF DOMAIN file.data = {last'.nt}
             THEN file' = AbsentFile
           ELSE file' = ObjectFile(Pop(file.data, last'.nt))
     /\ (/\ last'.op = "save" /\ last'.nt # "" /\ last'.failed = {}
         /\ file = AbsentFile)
        => (file'.kind = "object" /\ DOMAIN file'.data = {last'.nt})]_vars

\* A clear removed the only entry and the file with it.
C12_Witness ==
  /\ last.op = "clear" /\ last.nt = "Cloze"
  /\ last.found
  /\ last.failed = {}
  /\ file = AbsentFile

\* C17: frame of save and get.  When the storage calls of save(T, F, Ts) or
\* get(T) succeed, every entry of another type that is unexpired at the
\* time the operation prunes is persisted unchanged afterwards; every entry
\* that is no longer persisted was expired (for T in a get, at the time of
\* get's own test), or had no usable last_saved; a save adds no key but T
\* and a get adds none; and a get leaves what it keeps under T as it was.
C17_FrameOfSaveAndGet ==
  [][(/\ last'.op \in {"save", "get"} /\ last'.nt # ""
      /\ last'.failed = {})
     => LET T == last'.nt
            old == Persisted(file)
            new == Persisted(file')
        IN /\ file'.kind = "object"
           /\ \A U \in DOMAIN old \ {T} :
                Unexpired(old[U], now) => (U \in DOMAIN new /\ new[U] = old[U])
           /\ \A U \in DOMAIN old \ DOMAIN new :
                ~Unexpired(old[U], IF U = T THEN now' ELSE now)
           /\ DOMAIN new \subseteq
                DOMAIN old \cup (IF last'.op = "save" THEN {T} ELSE {})
           /\ (last'.op = "get" /\ T \in DOMAIN new) => new[T] = old[T]]_vars

\* A save of "Basic" left the draft of "Cloze", saved one unit earlier, as
\* it was.
C17_Witness ==
  /\ last.op = "save" /\ last.nt = "Basic" /\ last.failed = {}
  /\ Had(file, "Basic") # <<>>
  /\ Had(file, "Basic")[1].last_saved = now
  /\ Had(file, "Cloze") # <<>>
  /\ WellFormed(Had(file, "Cloze")[1])
  /\ Had(file, "Cloze")[1].last_saved = now - MAX_AGE_SECONDS

\* C20 as stated: when the read of the file fails during save(T) or get(T)
\* and every other storage call of the operation succeeds, the entries of
\* the types other than T that were persisted before the operation, as the
\* add-on writes them and unexpired, are persisted unchanged after it.
C20_Original ==
  [][(/\ last'.op \in {"save", "get"} /\ last'.nt # ""
      /\ last'.failed = {"read"})
     => \A U \in DOMAIN Persisted(file) \ {last'.nt} :
          (WellFormed(Persisted(file)[U]) /\ Unexpired(Persisted(file)[U], now'))
            => Had(file', U) = Had(file, U)]_vars

----------------------------------------------------------------------------
(* Properties of the sessions, checked under Spec *)

\* The entries persisted under the keys other than nt_name are the same in
\* f and g.
OthersUnchanged(f, g, nt_name) ==
  \A U \in (DOMAIN Persisted(f) \cup DOMAIN Persisted(g)) \ {nt_name} :
    Had(f, U) = Had(g, U)

\* C2: crash recovery.  An autosave tick of a bound note of non-empty type T
\* whose storage calls succeed persists the form's fields and tags under T;
\* a crash runs no handler and leaves the file as it is; and when the next
\* handler after the crash is the initialisation of a new session for type
\* T while the entry persisted under T is unexpired, the entry's fields are
\* applied to the form position by position and its tags replace the
\* form's.
C2_CrashRecovery ==
  [][/\ last'.op = "crash" => file' = file
     /\ \A s \in Dialogs :
          (/\ dialogs[s].phase = "open"
           /\ last'.op = "tick" /\ last'.s = s /\ last'.nt # ""
           /\ last'.failed = {})
          => (/\ Had(file', last'.nt) # <<>>
              /\ WellFormed(Had(file', last'.nt)[1])
              /\ Had(file', last'.nt)[1].fields = dialogs[s].fields
              /\ Had(file', last'.nt)[1].tags = dialogs[s].tags
              /\ Had(file', last'.nt)[1].last_saved = now')
     /\ \A s \in Dialogs :
          (/\ dialogs[s].phase = "constructed"
           /\ last'.op = "open" /\ last'.s = s /\ last'.nt # ""
           /\ last'.after = <<"crash", "">>
           /\ last'.failed = {}
           /\ Had(file, last'.nt) # <<>>
           /\ WellFormed(Had(file, last'.nt)[1])
           /\ Unexpired(Had(file, last'.nt)[1], now'))
          => LET e == Had(file, last'.nt)[1]
             IN /\ dialogs'[s].phase = "open"
                /\ Len(dialogs'[s].fields) = Len(dialogs[s].fields)
                /\ \A i \in 1..Len(dialogs[s].fields) :
                     dialogs'[s].fields[i] =
                       IF i <= Len(e.fields) THEN e.fields[i]
                       ELSE dialogs[s].fields[i]
                /\ dialogs'[s].tags = e.tags]_vars

\* A session started after a crash got back the draft a tick of this run
\* had saved: text in the first field only, with a tag.
C2_Witness ==
  /\ last.op = "open" /\ last.nt = "Basic" /\ last.failed = {}
  /\ last.after = <<"crash", "">>
  /\ last.ret # None
  /\ last.ret[1].last_saved > MinTime
  /\ last.ret[1].fields = <<"f", "">>
  /\ dialogs[last.s].fields = <<"f", "">>
  /\ dialogs[last.s].tags = <<"t">>

\* The sessions under weak fairness of each dialog's timer: a running QTimer
\* of an open dialog fires again and again (line 281, AUTOSAVE_INTERVAL_MS).
\* They start from a fresh profile, where no draft file exists yet, with
\* the clock one unit before its last value: a tick stamps its entry with
\* the time it reads, so the age of older entries plays no part in what a
\* tick leaves under the form's type.
LiveInit ==
  /\ file = AbsentFile
  /\ now = MaxTime - 1
  /\ dialogs = [s \in Dialogs |-> NoDialog]
  /\ last = NoOp

LiveSpec == LiveInit /\ [][Next]_vars /\ \A s \in Dialogs : WF_vars(Tick(s))

\* When dialog s is open on a bound note of non-empty type, the store holds
\* an entry for that type with the form's fields and tags.
FormSaved(s) ==
  (dialogs[s].phase = "open" /\ _note_type_name(dialogs[s]) # "")
  => LET e == Had(file, _note_type_name(dialogs[s]))
     IN /\ e # <<>>
        /\ WellFormed(e[1])
        /\ e[1].fields = _extract_fields(dialogs[s])
        /\ e[1].tags = dialogs[s].tags

\* C3: autosave progress.  A tick makes at most one save call and leaves the
\* dialog open with its timer running, also when a storage call failed; and
\* under weak fairness of the timer, unless ticks go on and on failing to
\* write, again and again the session is closed or not on a bound note of
\* non-empty type, or the store holds an entry for the form's type equal to
\* the form's current fields and tags.
C3_AutosaveProgress ==
  /\ [](last.op = "tick"
         => /\ Len(last.calls) <= 1
            /\ dialogs[last.s].phase = "open"
            /\ dialogs[last.s].timer)
  /\ \A s \in Dialogs :
       []<>(FormSaved(s) \/ (last.op = "tick" /\ "write" \in last.failed))

\* A tick whose write succeeded directly after a tick of the same note whose
\* write failed: the store holds the form's fields and tags, and the timer
\* is still running.
C3_Witness ==
  /\ last.op = "tick" /\ last.nt = "Basic"
  /\ last.after = <<"failed_tick", "Basic">>
  /\ last.failed = {}
  /\ dialogs[last.s].timer
  /\ dialogs[last.s].fields = <<"f", "">>
  /\ Had(file, "Basic") # <<>>
  /\ Had(file, "Basic")[1].fields = <<"f", "">>
  /\ Had(file, "Basic")[1].tags = <<"t">>

\* C4: explicit discard.  The last autosaved note type of a session is the
\* type of its most recent tick that was not skipped.  When a session closes
\* whose last autosaved note type T is non-empty and the storage calls of
\* the cleanup succeed, no entry is persisted under T after the close, and
\* the entries of every other type are as they were before it.
C4_ExplicitDiscard ==
  [][\A s \in Dialogs :
       /\ (dialogs[s].phase = "open" /\ last'.op = "tick" /\ last'.s = s)
          => dialogs'[s].last_nt_name =
               IF last'.calls # <<>> THEN last'.nt ELSE dialogs[s].last_nt_name
       /\ (/\ dialogs[s].phase = "open"
           /\ last'.op = "close" /\ last'.s = s
           /\ dialogs[s].last_nt_name # ""
           /\ last'.failed = {})
          => (/\ Had(file', dialogs[s].last_nt_name) = <<>>
              /\ OthersUnchanged(file, file', dialogs[s].last_nt_name))]_vars

\* A close removed the draft of "Basic" and left the one of "Cloze".
C4_Witness ==
  /\ last.op = "close" /\ last.nt = "Basic" /\ last.failed = {}
  /\ last.found
  /\ Had(file, "Basic") = <<>>
  /\ Had(file, "Cloze") # <<>>

\* C5: commit clears the draft.  When the host reports an added note of
\* non-empty type T and the storage calls of the handler succeed, no entry
\* is persisted under T afterwards, the entries of the other types are
\* unchanged, and the session goes on: the dialog, its last autosaved type
\* and its running timer are as before.
C5_CommitClearsDraft ==
  [][\A s \in Dialogs :
       (/\ dialogs[s].phase = "open"
        /\ last'.op = "commit" /\ last'.s = s /\ last'.nt # ""
        /\ last'.failed = {})
       => (/\ Had(file', last'.nt) = <<>>
           /\ OthersUnchanged(file, file', last'.nt)
           /\ dialogs'[s] = dialogs[s]
           /\ dialogs'[s].phase = "open"
           /\ dialogs'[s].timer)]_vars

\* A commit removed the draft of "Cloze", left the one of "Basic", and the
\* session that had autosaved "Cloze" is still open with its timer running.
C5_Witness ==
  /\ last.op = "commit" /\ last.nt = "Cloze" /\ last.failed = {}
  /\ last.found
  /\ Had(file, "Cloze") = <<>>
  /\ Had(file, "Basic") # <<>>
  /\ dialogs[last.s].phase = "open"
  /\ dialogs[last.s].timer
  /\ dialogs[last.s].last_nt_name = "Cloze"

\* C6: close fallback.  When a session closes whose last autosaved note
\* type is still empty, the cleanup calls _clear_all_backups, and when its
\* storage call succeeds the backing file does not exist afterwards.
C6_CloseFallback ==
  [][\A s \in Dialogs :
       (/\ dialogs[s].phase = "open"
        /\ last'.op = "close" /\ last'.s = s
        /\ dialogs[s].last_nt_name = "")
       => (/\ last'.calls[1] = "_clear_all_backups"
           /\ last'.failed = {} => file' = AbsentFile)]_vars

\* A session that never autosaved closed while the file existed: the file
\* is gone.
C6_Witness ==
  /\ last.op = "close" /\ last.nt = "" /\ last.failed = {}
  /\ last.found
  /\ last.calls[1] = "_clear_all_backups"
  /\ file = AbsentFile

\* C7: close is augmented, not replaced.  Every close event calls the
\* cleanup and then the host's original close handler, once, also when a
\* storage call of the cleanup failed; the dialog is closed afterwards.
C7_CloseAugmented ==
  last.op = "close"
  => (/\ Len(last.calls) = 2
      /\ last.calls[1] \in {"_clear_backup_for_notetype", "_clear_all_backups"}
      /\ last.calls[2] = "original_close_event"
      /\ dialogs[last.s].phase = "none")

\* A close whose cleanup could not remove or rewrite the file still called
\* the original handler.
C7_Witness ==
  /\ last.op = "close"
  /\ last.failed # {}
  /\ last.calls[2] = "original_close_event"
  /\ file.kind # "absent"

\* C13: partial field mismatch.  When the initialisation of a session gets
\* an entry whose fields are a list of length m for a form of n fields, the
\* handler completes, the form still has n fields, field i holds stored
\* field i for i up to min(m, n), and the fields past m are as they were;
\* stored fields past n go nowhere.
C13_PartialFieldMismatch ==
  [][\A s \in Dialogs :
       (/\ dialogs[s].phase = "constructed"
        /\ last'.op = "open" /\ last'.s = s
        /\ last'.ret # None
        /\ last'.ret[1].fields_kind = "list")
       => LET stored == last'.ret[1].fields
              m == Len(stored)
              n == Len(dialogs[s].fields)
          IN /\ dialogs'[s].phase = "open"
             /\ Len(dialogs'[s].fields) = n
             /\ \A i \in 1..n :
                  /\ i <= m => dialogs'[s].fields[i] = stored[i]
                  /\ i > m => dialogs'[s].fields[i] = dialogs[s].fields[i]]_vars

\* A draft of three fields was restored onto a form of two: the form holds
\* the first two.
C13_Witness ==
  /\ last.op = "open" /\ last.nt = "Basic"
  /\ last.ret # None
  /\ last.ret[1].fields = <<"f", "", "f">>
  /\ dialogs[last.s].phase = "open"
  /\ dialogs[last.s].fields = <<"f", "">>

C15_EmptyKeyNoOp ==
  /\ [](/\ \A flt \in SaveFaults, d \in Drafts, t2 \in SecondRead :
            _save_backup_for_notetype(file, "", d.fields, d.tags, flt, now, t2)
              = [exc |-> "none", file |-> file, failed |-> {}]
        /\ \A flt \in ClearFaults :
            _clear_backup_for_notetype(file, "", flt)
              = [exc |-> "none", file |-> file, failed |-> {}])
  /\ [][\A s \in Dialogs :
          (/\ last'.op = "tick" /\ last'.s = s
           /\ (~dialogs[s].bound \/ dialogs[s].nt = ""))
          => (/\ file' = file
              /\ dialogs'[s] = dialogs[s]
              /\ last'.calls = <<>>
              /\ last'.failed = {})]_vars

\* A tick found a note whose type has no name: it was skipped, and the
\* session still remembers "Basic", whose draft is still persisted.
C15_Witness ==
  /\ last.op = "tick" /\ last.nt = ""
  /\ last.calls = <<>>
  /\ dialogs[last.s].bound
  /\ dialogs[last.s].last_nt_name = "Basic"
  /\ Had(file, "Basic") # <<>>

----------------------------------------------------------------------------
(* The draft store from a fresh profile *)

\* No draft file exists yet when the store is first called.
LifecycleInit == StoreInit /\ file = AbsentFile

LifecycleSpec == LifecycleInit /\ [][StoreNext]_vars

\* C16 as stated: starting from an absent store, after get, save, clear and
\* clear_all operations whose storage calls succeed, with time advancing,
\* the backing file exists only if it holds at least one entry.
C16_Original ==
  (last.op \in {"get", "save", "clear", "clear_all"} /\ last.failed = {})
  => \/ file = AbsentFile
     \/ (file.kind = "object" /\ DOMAIN file.data # {})

\* The first tick of session s since its initialisation, with nothing but
\* steps of the environment between them, saves under note type T while an
\* unexpired draft as the add-on writes it is persisted under T.
FirstTickOverDraft(s, T) ==
  /\ last'.op = "tick" /\ last'.s = s /\ last'.nt = T
  /\ last'.calls # <<>>
  /\ last'.failed = {}
  /\ RestoreMark[1] \in {"restored", "unrestored"}
  /\ Had(file, T) # <<>>
  /\ WellFormed(Had(file, T)[1])
  /\ Unexpired(Had(file, T)[1], now)

\* C19 as stated: if the store holds an unexpired draft for T when a tick
\* of a session first writes under T, the session has applied a draft of T
\* to the form before, be T the type the session started with or one the
\* user switched to.
C19_Original ==
  [][\A s \in Dialogs, T \in NoteTypes :
       FirstTickOverDraft(s, T) => RestoreMark = <<"restored", T>>]_vars

\* C19: no draft of the session's initial type is overwritten before it is
\* restored.  The initialisation of a session applies the fields and tags
\* of the entry it gets before the timer is started, and when the storage
\* calls of the initialisation succeeded and the first tick of the session
\* saves under the type T the session started with while an unexpired draft
\* is persisted under T, the initialisation has applied a draft of T.
C19_RestoredBeforeOverwritten ==
  [][\A s \in Dialogs :
       /\ (/\ last'.op = "open" /\ last'.s = s
           /\ last'.ret # None
           /\ last'.ret[1].fields_kind = "list" /\ last'.ret[1].tags_kind = "list")
          => (/\ ~dialogs[s].timer /\ dialogs'[s].timer
              /\ dialogs'[s].fields
                   = _apply_fields(dialogs[s].fields, last'.ret[1].fields)
              /\ dialogs'[s].tags = last'.ret[1].tags)
       /\ \A T \in NoteTypes :
            (FirstTickOverDraft(s, T) /\ RestoreMark[2] = T)
            => RestoreMark = <<"restored", T>>]_vars

\* The first tick of a session that had restored the draft of "Basic" saved
\* the restored form.
C19_Witness ==
  /\ last.op = "tick" /\ last.nt = "Basic"
  /\ last.after = <<"restored", "Basic">>
  /\ last.calls # <<>>
  /\ last.failed = {}
  /\ Had(file, "Basic") # <<>>
  /\ Had(file, "Basic")[1].fields = <<"f", "">>
  /\ Had(file, "Basic")[1].tags = <<"t">>

----------------------------------------------------------------------------
(* Two Add dialogs at a time, their handlers interleaved on the one UI
   thread: each handler runs to completion before the next starts *)

OverlapInit ==
  /\ file \in {AbsentFile, ObjectFile([nt \in {"Cloze"} |-> Entry(MinTime, <<"f">>, <<"t">>)])}
  /\ now = MinTime
  /\ dialogs = [s \in Dialogs |-> NoDialog]
  /\ last = NoOp

\* The note type both sessions edit.
OverlapType == "Basic"

\* The host constructs an Add dialog on a note of that type.
AddCardsInitOfType(s) ==
  /\ AddCardsInit(s)
  /\ dialogs'[s].bound /\ dialogs'[s].nt = OverlapType

\* The user edits the note in dialog s, and stays with its type.
EditNote(s) ==
  /\ SetNote(s)
  /\ dialogs'[s].bound /\ dialogs'[s].nt = OverlapType

OverlapNext ==
  \/ ClockTick
  \/ \E s \in Dialogs : AddCardsInitOfType(s)
  \/ \E s \in Dialogs : on_add_cards_did_init(s)
  \/ \E s \in Dialogs : Tick(s)
  \/ \E s \in Dialogs : EditNote(s)
  \/ \E s \in Dialogs : CloseEvent(s)

OverlapSpec == OverlapInit /\ [][OverlapNext]_vars

\* C18: overlapping sessions.  When a session closes while another open
\* session has autosaved the same note type T, and later the other one
\* closes too, still on T, with no dialog left open and the storage calls of
\* that close succeeding, no entry is persisted under T; and every session
\* initialisation, tick and close whose storage calls succeed leaves the
\* entries of the types other than its own that are unexpired persisted
\* unchanged.
C18_OverlappingSessions ==
  /\ []((/\ last.op = "close" /\ last.after[1] = "overlap"
          /\ last.nt = last.after[2]
          /\ last.failed = {}
          /\ \A s \in Dialogs : dialogs[s].phase = "none")
         => Had(file, last.nt) = <<>>)
  /\ [][(/\ last'.op \in {"open", "tick", "close"} /\ last'.nt # ""
          /\ last'.failed = {})
         => \A U \in DOMAIN Persisted(file) \ {last'.nt} :
              Unexpired(Persisted(file)[U], now) => Had(file', U) = Had(file, U)]_vars

\* Two sessions had autosaved "Basic"; one closed, the other saved again
\* and then closed: its close found the draft and removed it, and the draft
\* of "Cloze" is still there.
C18_Witness ==
  /\ last.op = "close" /\ last.nt = "Basic"
  /\ last.after = <<"overlap", "Basic">>
  /\ last.found
  /\ last.failed = {}
  /\ \A s \in Dialogs : dialogs[s].phase = "none"
  /\ Had(file, "Basic") = <<>>
  /\ Had(file, "Cloze") # <<>>

====
